---------------------------- MODULE Spec2Model ----------------------------
(***************************************************************************)
(* Lorry logistics calculator: the fleet-size solver (the calculationResult *)
(* memo of the App component) and the schedule builder (the schedules memo *)
(* of the GanttChart component).                                           *)
(*                                                                         *)
(* Times are JavaScript numbers in hours.  They are modelled exactly as    *)
(* integer multiples of 1/TicksPerHour hour; TicksPerHour is a common      *)
(* denominator of every quotient the code forms from the modelled inputs   *)
(* (loadTime / 60, tipTime / 60, distance / avgSpeed for the speeds of     *)
(* AvgSpeeds, and the tolerance 0.0001), so no quotient is rounded.        *)
(* inputs.time is held in ticks; every other input is in its own unit.     *)
(***************************************************************************)
EXTENDS Integers, Sequences, FiniteSets

(***************************************************************************)
(* Program constants                                                       *)
(***************************************************************************)
\* loadTime / 60, tipTime / 60
MinutesPerHour == 60
\* 0.0001 = 1 / EpsilonInv hours
EpsilonInv == 10000
\* Math.max(50, totalTripsNeeded)
MinLorriesToTest == 50
\* the sentinel Infinity: larger than every number the model forms
Infinity == 2147483647
\* step of the "Planing Window" slider is 0.25 h = 1 / WindowStepsPerHour
WindowStepsPerHour == 4
\* step of the "Total Planing Tonnes" slider
MaterialStep == 10

TicksPerHour == MinutesPerHour * 500 * 31
Epsilon == TicksPerHour \div EpsilonInv

(***************************************************************************)
(* Bounds of the model                                                     *)
(***************************************************************************)
MaxMaterialSteps == 4
MaxWindowSteps == 3
MaxTolerancesBelow == 2

Materials == {k * MaterialStep : k \in 0..MaxMaterialSteps}
LorryCapacities == {0, 15, 20}
Distances == {5, 10}
AvgSpeeds == {0, 30, 60}
LoadTimes == {0, 10, 15}
TipTimes == {5}
Prices == {1, 15}
Costs == {600}
\* windows on the slider grid and one or two tolerances below a grid point
Windows ==
    {q * (TicksPerHour \div WindowStepsPerHour) - d * Epsilon :
        q \in 0..MaxWindowSteps, d \in 0..MaxTolerancesBelow}

VARIABLES
    inputs,                    \* CalculatorInputs
    advancedSettings,          \* AdvancedSettings
    pc,                        \* position in the solver / the schedule builder
    numLorries,                \* candidate fleet size of the running simulation
    i,                         \* trip index of the running loop
    lorriesNextAvailableTime,  \* per-lorry next available time of the running loop
    loadingBayFreeAt,          \* bay free time of the running loop
    lorriesNeeded,             \* solver's answer so far (Infinity until found)
    achievableTrips,           \* trips admitted by the achievable-throughput loop
    requiredTime,              \* load end of the last trip of the required-time loop
    loadLog,                   \* <<loadStart, loadEnd, lorry>> of the trips of the running loop
    decided,                   \* the deadline guard's verdicts of this solve, by load end
    result,                    \* CalculationResult
    lorries,                   \* schedule builder: per-lorry id, trips, nextAvailableTime
    ganttLoadingBayFreeAt,     \* schedule builder: its own loadingBayFreeAt
    ganttI,                    \* schedule builder: trip index of its dispatch loop
    ganttLog,                  \* schedule builder: <<loadStart, loadEnd, lorry>> of its trips
    schedules,                 \* schedule builder: finalSchedules
    maxTime                    \* schedule builder: maxTime (ticks)

vars == <<inputs, advancedSettings, pc, numLorries, i, lorriesNextAvailableTime,
          loadingBayFreeAt, lorriesNeeded, achievableTrips, requiredTime, loadLog,
          decided, result, lorries, ganttLoadingBayFreeAt, ganttI, ganttLog,
          schedules, maxTime>>

solverVars == <<numLorries, i, lorriesNextAvailableTime, loadingBayFreeAt,
                lorriesNeeded, achievableTrips, requiredTime, loadLog, decided, result>>
ganttVars == <<lorries, ganttLoadingBayFreeAt, ganttI, ganttLog, schedules, maxTime>>

(***************************************************************************)
(* Number helpers                                                          *)
(***************************************************************************)
Max(a, b) == IF a >= b THEN a ELSE b

\* (Math.floor in the place of Math.ceil)
Floor(a, b) == a \div b
\* Math.ceil(a / b) for b > 0
Ceil(a, b) == 0 - ((0 - a) \div b)

isFinite(x) == x # Infinity

\* Math.min(...s): the least element, Infinity for an empty array
MathMin(s) ==
    IF Len(s) = 0 THEN Infinity
    ELSE CHOOSE m \in {s[k] : k \in 1..Len(s)} : \A k \in 1..Len(s) : m <= s[k]

\* s.indexOf(v), 1-based; v is an element of s wherever the code calls it
indexOf(s, v) == CHOOSE k \in 1..Len(s) : s[k] = v /\ \A j \in 1..(k - 1) : s[j] # v

(***************************************************************************)
(* The solver: quantities derived from the inputs                          *)
(***************************************************************************)
\* (a guard that forgets the load duration)
DegenerateWithoutLoadTime ==
    \/ advancedSettings.lorryCapacity <= 0
    \/ advancedSettings.avgSpeed <= 0
    \/ inputs.time <= 0
Degenerate ==
    \/ advancedSettings.lorryCapacity <= 0
    \/ advancedSettings.avgSpeed <= 0
    \/ inputs.time <= 0
    \/ inputs.loadTime <= 0

totalTripsNeeded == Ceil(inputs.material, advancedSettings.lorryCapacity)
travelTimeHours == (inputs.distance * TicksPerHour) \div advancedSettings.avgSpeed
roundTripTimeHours == travelTimeHours * 2
loadTimeHours == (inputs.loadTime * TicksPerHour) \div MinutesPerHour
tipTimeHours == (advancedSettings.tipTime * TicksPerHour) \div MinutesPerHour
timePerTrip == roundTripTimeHours + loadTimeHours + tipTimeHours
maxLorriesToTest == Max(MinLorriesToTest, totalTripsNeeded)

\* the first candidate fleet size and the step of the outer search
FirstCandidate == 1
\* (a search that skips every other candidate)
NextCandidateSkipping(n) == n + 2
NextCandidate(n) == n + 1

\* new Array(n).fill(0)
NewFleet(n) == [k \in 1..n |-> 0]

\* (a dispatch that takes the latest-available lorry: Math.max for Math.min)
DispatchLatest(avail, bay) ==
    LET latestLorryTime == CHOOSE v \in {avail[k] : k \in 1..Len(avail)} :
                              \A k \in 1..Len(avail) : avail[k] <= v
        latestLorryIdx == indexOf(avail, latestLorryTime)
        loadStartTime == Max(latestLorryTime, bay)
        loadEndTime == loadStartTime + loadTimeHours
    IN [earliestLorryIdx |-> latestLorryIdx,
        loadStartTime |-> loadStartTime,
        loadEndTime |-> loadEndTime,
        lorryReturnTime |-> loadEndTime + travelTimeHours + tipTimeHours + travelTimeHours]

\* (a lorry that is free again as soon as it is loaded)
DispatchFreeAtLoadEnd(avail, bay) ==
    LET earliestLorryTime == MathMin(avail)
        earliestLorryIdx == indexOf(avail, earliestLorryTime)
        loadStartTime == Max(earliestLorryTime, bay)
        loadEndTime == loadStartTime + loadTimeHours
    IN [earliestLorryIdx |-> earliestLorryIdx,
        loadStartTime |-> loadStartTime,
        loadEndTime |-> loadEndTime,
        lorryReturnTime |-> loadEndTime]

\* (a dispatch that does not wait for the bay)
DispatchIgnoringBay(avail, bay) ==
    LET earliestLorryTime == MathMin(avail)
        earliestLorryIdx == indexOf(avail, earliestLorryTime)
        loadStartTime == earliestLorryTime
        loadEndTime == loadStartTime + loadTimeHours
    IN [earliestLorryIdx |-> earliestLorryIdx,
        loadStartTime |-> loadStartTime,
        loadEndTime |-> loadEndTime,
        lorryReturnTime |-> loadEndTime + travelTimeHours + tipTimeHours + travelTimeHours]

\* One trip of the greedy dispatch: the earliest-available lorry (lowest index
\* on ties) loads as soon as both it and the bay are free.
Dispatch(avail, bay) ==
    LET earliestLorryTime == MathMin(avail)
        earliestLorryIdx == indexOf(avail, earliestLorryTime)
        loadStartTime == Max(earliestLorryTime, bay)
        loadEndTime == loadStartTime + loadTimeHours
    IN [earliestLorryIdx |-> earliestLorryIdx,
        loadStartTime |-> loadStartTime,
        loadEndTime |-> loadEndTime,
        lorryReturnTime |-> loadEndTime + travelTimeHours + tipTimeHours + travelTimeHours]

\* (a guard on the load start: the load end less the load duration)
DeadlineExceededByStart(loadEndTime) == loadEndTime - loadTimeHours > inputs.time + Epsilon
\* (a guard that rejects at the tolerance itself)
DeadlineExceededAtTolerance(loadEndTime) == loadEndTime >= inputs.time + Epsilon
\* the deadline guard: loadEndTime > time + 0.0001
DeadlineExceeded(loadEndTime) == loadEndTime > inputs.time + Epsilon

\* the guard's verdict on a load end, as the solve records it
Verdict(loadEndTime, exceeded) == [loadEndTime |-> loadEndTime, exceeded |-> exceeded]

\* The inner loop of the search for a fixed fleet: TRUE iff `possible` stays
\* true over the remaining k trips.
RECURSIVE PossibleFrom(_, _, _)
PossibleFrom(avail, bay, k) ==
    IF k <= 0 THEN TRUE
    ELSE LET s == Dispatch(avail, bay)
         IN IF DeadlineExceeded(s.loadEndTime) THEN FALSE
            ELSE PossibleFrom([avail EXCEPT ![s.earliestLorryIdx] = s.lorryReturnTime],
                              s.loadEndTime, k - 1)

\* (a simulation that dispatches totalTripsNeeded trips per lorry)
PossibleTripsPerLorry(n) == PossibleFrom(NewFleet(n), 0, totalTripsNeeded * n)
Possible(n) == PossibleFrom(NewFleet(n), 0, totalTripsNeeded)

\* The load ends of k trips dispatched greedily with no deadline check, as
\* the required-time loop dispatches them.
RECURSIVE LoadEndsFrom(_, _, _)
LoadEndsFrom(avail, bay, k) ==
    IF k <= 0 THEN <<>>
    ELSE LET s == Dispatch(avail, bay)
         IN <<s.loadEndTime>> \o
            LoadEndsFrom([avail EXCEPT ![s.earliestLorryIdx] = s.lorryReturnTime],
                         s.loadEndTime, k - 1)

LoadEnds(n, k) == LoadEndsFrom(NewFleet(n), 0, k)

\* tripsPerLorry is a quotient: kept as numerator and denominator
Quotient(a, b) == [num |-> a, den |-> b]
Zero == Quotient(0, 1)

NoResult == [pending |-> TRUE]

ZeroResult ==
    [lorriesNeeded |-> 0, totalTripsNeeded |-> 0, timePerTrip |-> 0,
     tripsPerLorry |-> Zero, totalValue |-> 0, totalCost |-> 0,
     achievableMaterial |-> 0, achievableValue |-> 0]

FeasibleResult(n) ==
    [lorriesNeeded |-> n, totalTripsNeeded |-> totalTripsNeeded,
     timePerTrip |-> timePerTrip,
     tripsPerLorry |-> IF n > 0 THEN Quotient(totalTripsNeeded, n) ELSE Zero,
     totalValue |-> inputs.material * inputs.pricePerTonne,
     totalCost |-> n * inputs.costPerLorry]

\* (an infeasible result that reports the achievable value as the total value)
InfeasibleResultAchievedValue(trips, required) ==
    LET achievableMaterial == trips * advancedSettings.lorryCapacity
        base == [lorriesNeeded |-> Infinity, totalTripsNeeded |-> totalTripsNeeded,
                 timePerTrip |-> timePerTrip, tripsPerLorry |-> Zero,
                 totalValue |-> achievableMaterial * inputs.pricePerTonne,
                 totalCost |-> 0,
                 achievableMaterial |-> achievableMaterial,
                 achievableValue |-> achievableMaterial * inputs.pricePerTonne]
    IN IF required > inputs.time
       THEN [f \in DOMAIN base \cup {"requiredTime"} |->
                IF f = "requiredTime" THEN required ELSE base[f]]
       ELSE base

\* (an infeasible result that counts the trip the guard rejected)
InfeasibleResultCountingRejected(trips, required) ==
    LET achievableMaterial == (trips + 1) * advancedSettings.lorryCapacity
        base == [lorriesNeeded |-> Infinity, totalTripsNeeded |-> totalTripsNeeded,
                 timePerTrip |-> timePerTrip, tripsPerLorry |-> Zero,
                 totalValue |-> inputs.material * inputs.pricePerTonne,
                 totalCost |-> 0,
                 achievableMaterial |-> achievableMaterial,
                 achievableValue |-> achievableMaterial * inputs.pricePerTonne]
    IN IF required > inputs.time
       THEN [f \in DOMAIN base \cup {"requiredTime"} |->
                IF f = "requiredTime" THEN required ELSE base[f]]
       ELSE base

InfeasibleResult(trips, required) ==
    LET achievableMaterial == trips * advancedSettings.lorryCapacity
        base == [lorriesNeeded |-> Infinity, totalTripsNeeded |-> totalTripsNeeded,
                 timePerTrip |-> timePerTrip, tripsPerLorry |-> Zero,
                 totalValue |-> inputs.material * inputs.pricePerTonne,
                 totalCost |-> 0,
                 achievableMaterial |-> achievableMaterial,
                 achievableValue |-> achievableMaterial * inputs.pricePerTonne]
    IN IF required > inputs.time
       THEN [f \in DOMAIN base \cup {"requiredTime"} |->
                IF f = "requiredTime" THEN required ELSE base[f]]
       ELSE base

(***************************************************************************)
(* Initial state: the inputs are drawn, nothing has been computed          *)
(***************************************************************************)
Init ==
    /\ inputs \in [material : Materials, distance : Distances, time : Windows,
                   loadTime : LoadTimes, pricePerTonne : Prices, costPerLorry : Costs]
    /\ advancedSettings \in [lorryCapacity : LorryCapacities, avgSpeed : AvgSpeeds,
                             tipTime : TipTimes]
    /\ pc = "start"
    /\ numLorries = 0
    /\ i = 0
    /\ lorriesNextAvailableTime = <<>>
    /\ loadingBayFreeAt = 0
    /\ lorriesNeeded = Infinity
    /\ achievableTrips = 0
    /\ requiredTime = 0
    /\ loadLog = <<>>
    /\ decided = {}
    /\ result = NoResult
    /\ lorries = <<>>
    /\ ganttLoadingBayFreeAt = 0
    /\ ganttI = 0
    /\ ganttLog = <<>>
    /\ schedules = <<>>
    /\ maxTime = 0

(***************************************************************************)
(* The solver, one action per loop iteration                               *)
(***************************************************************************)
\* start a simulation with n lorries
Begin(n) ==
    /\ numLorries' = n
    /\ i' = 0
    /\ lorriesNextAvailableTime' = NewFleet(n)
    /\ loadingBayFreeAt' = 0
    /\ loadLog' = <<>>

\* the trip is dispatched: the bay and the lorry are booked
Book(s) ==
    /\ i' = i + 1
    /\ loadingBayFreeAt' = s.loadEndTime
    /\ lorriesNextAvailableTime' =
          [lorriesNextAvailableTime EXCEPT ![s.earliestLorryIdx] = s.lorryReturnTime]
    /\ loadLog' = Append(loadLog, <<s.loadStartTime, s.loadEndTime, s.earliestLorryIdx>>)
    /\ UNCHANGED numLorries

SolveDegenerate ==
    /\ pc = "start"
    /\ Degenerate
    /\ result' = ZeroResult
    /\ pc' = "done"
    /\ UNCHANGED <<inputs, advancedSettings, numLorries, i, lorriesNextAvailableTime,
                   loadingBayFreeAt, lorriesNeeded, achievableTrips, requiredTime,
                   loadLog, decided>>
    /\ UNCHANGED ganttVars

SolveStart ==
    /\ pc = "start"
    /\ ~Degenerate
    /\ FirstCandidate <= maxLorriesToTest
    /\ Begin(FirstCandidate)
    /\ pc' = "search"
    /\ UNCHANGED <<inputs, advancedSettings, lorriesNeeded, achievableTrips,
                   requiredTime, decided, result>>
    /\ UNCHANGED ganttVars

SearchAccept ==
    /\ pc = "search"
    /\ i < totalTripsNeeded
    /\ LET s == Dispatch(lorriesNextAvailableTime, loadingBayFreeAt)
       IN /\ ~DeadlineExceeded(s.loadEndTime)
          /\ decided' = decided \cup {Verdict(s.loadEndTime, FALSE)}
          /\ Book(s)
    /\ UNCHANGED <<inputs, advancedSettings, pc, lorriesNeeded, achievableTrips,
                   requiredTime, result>>
    /\ UNCHANGED ganttVars

\* possible = false; break; the next candidate fleet size is tried
SearchReject ==
    /\ pc = "search"
    /\ i < totalTripsNeeded
    /\ LET s == Dispatch(lorriesNextAvailableTime, loadingBayFreeAt)
       IN /\ DeadlineExceeded(s.loadEndTime)
          /\ decided' = decided \cup {Verdict(s.loadEndTime, TRUE)}
    /\ NextCandidate(numLorries) <= maxLorriesToTest
    /\ Begin(NextCandidate(numLorries))
    /\ UNCHANGED <<inputs, advancedSettings, pc, lorriesNeeded, achievableTrips,
                   requiredTime, result>>
    /\ UNCHANGED ganttVars

\* possible = false; break; no candidate is left: the achievable-throughput
\* loop starts with the ceiling fleet size
SearchExhausted ==
    /\ pc = "search"
    /\ i < totalTripsNeeded
    /\ LET s == Dispatch(lorriesNextAvailableTime, loadingBayFreeAt)
       IN /\ DeadlineExceeded(s.loadEndTime)
          /\ decided' = decided \cup {Verdict(s.loadEndTime, TRUE)}
    /\ NextCandidate(numLorries) > maxLorriesToTest
    /\ Begin(maxLorriesToTest)
    /\ achievableTrips' = 0
    /\ pc' = "achievable"
    /\ UNCHANGED <<inputs, advancedSettings, lorriesNeeded, requiredTime, result>>
    /\ UNCHANGED ganttVars

\* every trip was dispatched: lorriesNeeded = numLorries; break; the feasible
\* result is returned
SearchSucceed ==
    /\ pc = "search"
    /\ i >= totalTripsNeeded
    /\ lorriesNeeded' = numLorries
    /\ result' = FeasibleResult(numLorries)
    /\ pc' = "done"
    /\ UNCHANGED <<inputs, advancedSettings, numLorries, i, lorriesNextAvailableTime,
                   loadingBayFreeAt, achievableTrips, requiredTime, loadLog, decided>>
    /\ UNCHANGED ganttVars

\* (a trip is admitted without booking the bay and the lorry)
AchievableAdmitWithoutBooking ==
    /\ pc = "achievable"
    /\ LET s == Dispatch(lorriesNextAvailableTime, loadingBayFreeAt)
       IN /\ ~DeadlineExceeded(s.loadEndTime)
          /\ decided' = decided \cup {Verdict(s.loadEndTime, FALSE)}
    /\ achievableTrips' = achievableTrips + 1
    /\ UNCHANGED <<inputs, advancedSettings, pc, numLorries, i,
                   lorriesNextAvailableTime, loadingBayFreeAt, loadLog,
                   lorriesNeeded, requiredTime, result>>
    /\ UNCHANGED ganttVars
AchievableAdmit ==
    /\ pc = "achievable"
    /\ LET s == Dispatch(lorriesNextAvailableTime, loadingBayFreeAt)
       IN /\ ~DeadlineExceeded(s.loadEndTime)
          /\ decided' = decided \cup {Verdict(s.loadEndTime, FALSE)}
          /\ Book(s)
    /\ achievableTrips' = achievableTrips + 1
    /\ UNCHANGED <<inputs, advancedSettings, pc, lorriesNeeded, requiredTime, result>>
    /\ UNCHANGED ganttVars

\* break; the required-time loop starts
AchievableStop ==
    /\ pc = "achievable"
    /\ LET s == Dispatch(lorriesNextAvailableTime, loadingBayFreeAt)
       IN /\ DeadlineExceeded(s.loadEndTime)
          /\ decided' = decided \cup {Verdict(s.loadEndTime, TRUE)}
    /\ Begin(maxLorriesToTest)
    /\ requiredTime' = 0
    /\ pc' = "required"
    /\ UNCHANGED <<inputs, advancedSettings, lorriesNeeded, achievableTrips, result>>
    /\ UNCHANGED ganttVars

\* (a required-time loop that records the last trip's load start)
RequiredTripLoadStart ==
    /\ pc = "required"
    /\ i < totalTripsNeeded
    /\ LET s == Dispatch(lorriesNextAvailableTime, loadingBayFreeAt)
       IN /\ Book(s)
          /\ requiredTime' = IF i = totalTripsNeeded - 1 THEN s.loadStartTime
                             ELSE requiredTime
    /\ UNCHANGED <<inputs, advancedSettings, pc, lorriesNeeded, achievableTrips,
                   decided, result>>
    /\ UNCHANGED ganttVars

\* (a required-time loop that records the first trip's load end)
RequiredTripFirst ==
    /\ pc = "required"
    /\ i < totalTripsNeeded
    /\ LET s == Dispatch(lorriesNextAvailableTime, loadingBayFreeAt)
       IN /\ Book(s)
          /\ requiredTime' = IF i = 0 THEN s.loadEndTime ELSE requiredTime
    /\ UNCHANGED <<inputs, advancedSettings, pc, lorriesNeeded, achievableTrips,
                   decided, result>>
    /\ UNCHANGED ganttVars

RequiredTrip ==
    /\ pc = "required"
    /\ i < totalTripsNeeded
    /\ LET s == Dispatch(lorriesNextAvailableTime, loadingBayFreeAt)
       IN /\ Book(s)
          /\ requiredTime' = IF i = totalTripsNeeded - 1 THEN s.loadEndTime
                             ELSE requiredTime
    /\ UNCHANGED <<inputs, advancedSettings, pc, lorriesNeeded, achievableTrips,
                   decided, result>>
    /\ UNCHANGED ganttVars

SolveInfeasible ==
    /\ pc = "required"
    /\ i >= totalTripsNeeded
    /\ result' = InfeasibleResult(achievableTrips, requiredTime)
    /\ pc' = "done"
    /\ UNCHANGED <<inputs, advancedSettings, numLorries, i, lorriesNextAvailableTime,
                   loadingBayFreeAt, lorriesNeeded, achievableTrips, requiredTime,
                   loadLog, decided>>
    /\ UNCHANGED ganttVars

(***************************************************************************)
(* The schedule builder (GanttChart's schedules memo), given the solver's  *)
(* result and the same inputs                                              *)
(***************************************************************************)
\* (ids that start at 0)
NewLorriesZeroBased(n) ==
    [k \in 1..n |-> [id |-> k - 1, trips |-> <<>>, nextAvailableTime |-> 0]]
\* Array.from({ length: n }, (_, i) => ({ id: i + 1, trips: [], nextAvailableTime: 0 }))
NewLorries(n) == [k \in 1..n |-> [id |-> k, trips |-> <<>>, nextAvailableTime |-> 0]]

\* (a tipping phase that starts when loading ends)
TripPhasesTipFromLoadEnd(tripStartTime) ==
    LET loadEnd == tripStartTime + loadTimeHours
        travelToTipEnd == loadEnd + travelTimeHours
        tipEnd == travelToTipEnd + tipTimeHours
        tripEndTime == tipEnd + travelTimeHours
    IN << [start |-> tripStartTime, end |-> loadEnd, type |-> "loading"],
          [start |-> loadEnd, end |-> travelToTipEnd, type |-> "travel"],
          [start |-> loadEnd, end |-> tipEnd, type |-> "tipping"],
          [start |-> tipEnd, end |-> tripEndTime, type |-> "travel"] >>

\* the four phases of the trip that starts loading at tripStartTime
TripPhases(tripStartTime) ==
    LET loadEnd == tripStartTime + loadTimeHours
        travelToTipEnd == loadEnd + travelTimeHours
        tipEnd == travelToTipEnd + tipTimeHours
        tripEndTime == tipEnd + travelTimeHours
    IN << [start |-> tripStartTime, end |-> loadEnd, type |-> "loading"],
          [start |-> loadEnd, end |-> travelToTipEnd, type |-> "travel"],
          [start |-> travelToTipEnd, end |-> tipEnd, type |-> "tipping"],
          [start |-> tipEnd, end |-> tripEndTime, type |-> "travel"] >>

\* (the builder's trip starts when the lorry is free, whatever the bay)
GanttDispatchIgnoringBay(ls, bay) ==
    LET times == [k \in 1..Len(ls) |-> ls[k].nextAvailableTime]
        earliestLorryTime == MathMin(times)
        earliestLorryIdx == indexOf(times, earliestLorryTime)
        nextAvailableLorry == ls[earliestLorryIdx]
        tripStartTime == nextAvailableLorry.nextAvailableTime
        tripPhases == TripPhases(tripStartTime)
    IN [lorries |-> [ls EXCEPT ![earliestLorryIdx] =
                        [id |-> nextAvailableLorry.id,
                         trips |-> Append(nextAvailableLorry.trips, tripPhases),
                         nextAvailableTime |-> tripPhases[4].end]],
        loadingBayFreeAt |-> tripPhases[1].end,
        earliestLorryIdx |-> earliestLorryIdx,
        tripStartTime |-> tripStartTime]
\* one iteration of the builder's dispatch loop
GanttDispatch(ls, bay) ==
    LET times == [k \in 1..Len(ls) |-> ls[k].nextAvailableTime]
        earliestLorryTime == MathMin(times)
        earliestLorryIdx == indexOf(times, earliestLorryTime)
        nextAvailableLorry == ls[earliestLorryIdx]
        tripStartTime == Max(nextAvailableLorry.nextAvailableTime, bay)
        tripPhases == TripPhases(tripStartTime)
    IN [lorries |-> [ls EXCEPT ![earliestLorryIdx] =
                        [id |-> nextAvailableLorry.id,
                         trips |-> Append(nextAvailableLorry.trips, tripPhases),
                         nextAvailableTime |-> tripPhases[4].end]],
        loadingBayFreeAt |-> tripPhases[1].end,
        earliestLorryIdx |-> earliestLorryIdx,
        tripStartTime |-> tripStartTime]

\* s without its last element (Array.prototype.pop)
Pop(s) == SubSeq(s, 1, Len(s) - 1)

\* (the return leg of every trip is removed)
TrimLorryEveryTrip(lorry) ==
    [lorry EXCEPT !.trips = [t \in 1..Len(lorry.trips) |-> Pop(lorry.trips[t])]]
\* the final return leg of a lorry's last trip is removed
TrimLorry(lorry) ==
    IF Len(lorry.trips) > 0
    THEN LET lastTrip == lorry.trips[Len(lorry.trips)]
         IN IF Len(lastTrip) > 0 /\ lastTrip[Len(lastTrip)].type = "travel"
            THEN [lorry EXCEPT !.trips[Len(lorry.trips)] = Pop(lastTrip)]
            ELSE lorry
    ELSE lorry

Trimmed(ls) == [k \in 1..Len(ls) |-> TrimLorry(ls[k])]

\* every phase end of the schedule
PhaseEnds(ls) ==
    UNION {UNION {{ls[k].trips[t][p].end : p \in 1..Len(ls[k].trips[t])} :
                    t \in 1..Len(ls[k].trips)} : k \in 1..Len(ls)}

\* the latest phase end, or the window if no phase ends after it
CalculatedMaxTime(ls) ==
    LET ends == {inputs.time} \cup PhaseEnds(ls)
    IN CHOOSE m \in ends : \A e \in ends : e <= m

\* (the time itself, not rounded up)
CeilHoursExact(t) == t
\* Math.ceil of a time in hours, as a time
CeilHours(t) == Ceil(t, TicksPerHour) * TicksPerHour

\* x put behind the entries of the sorted s whose id is not larger
RECURSIVE InsertById(_, _)
InsertById(x, s) ==
    IF s = <<>> THEN <<x>>
    ELSE IF s[Len(s)].id <= x.id THEN Append(s, x)
    ELSE Append(InsertById(x, Pop(s)), s[Len(s)])

\* .sort((a, b) => a.id - b.id)
RECURSIVE SortById(_)
SortById(s) ==
    IF s = <<>> THEN <<>>
    ELSE InsertById(s[Len(s)], SortById(Pop(s)))

\* .map(({id, trips}) => ({id, trips})).sort(...)
FinalSchedules(ls) ==
    SortById([k \in 1..Len(ls) |-> [id |-> ls[k].id, trips |-> ls[k].trips]])

\* the builder's guard: no schedule for an infeasible or degenerate result
GanttEmpty ==
    /\ pc = "done"
    /\ ~isFinite(result.lorriesNeeded) \/ result.lorriesNeeded <= 0
    /\ schedules' = <<>>
    /\ maxTime' = inputs.time
    /\ pc' = "ganttDone"
    /\ UNCHANGED <<inputs, advancedSettings, lorries, ganttLoadingBayFreeAt, ganttI,
                   ganttLog>>
    /\ UNCHANGED solverVars

GanttStart ==
    /\ pc = "done"
    /\ isFinite(result.lorriesNeeded)
    /\ result.lorriesNeeded > 0
    /\ lorries' = NewLorries(result.lorriesNeeded)
    /\ ganttLoadingBayFreeAt' = 0
    /\ ganttI' = 0
    /\ ganttLog' = <<>>
    /\ pc' = "gantt"
    /\ UNCHANGED <<inputs, advancedSettings, schedules, maxTime>>
    /\ UNCHANGED solverVars

GanttTrip ==
    /\ pc = "gantt"
    /\ ganttI < result.totalTripsNeeded
    /\ LET s == GanttDispatch(lorries, ganttLoadingBayFreeAt)
       IN /\ lorries' = s.lorries
          /\ ganttLoadingBayFreeAt' = s.loadingBayFreeAt
          /\ ganttLog' = Append(ganttLog, <<s.tripStartTime, s.loadingBayFreeAt,
                                            s.earliestLorryIdx>>)
    /\ ganttI' = ganttI + 1
    /\ UNCHANGED <<inputs, advancedSettings, pc, schedules, maxTime>>
    /\ UNCHANGED solverVars

\* after the loop: the return legs are trimmed, the chart's maximum time is
\* taken and the schedules are returned sorted by id
GanttFinish ==
    /\ pc = "gantt"
    /\ ganttI >= result.totalTripsNeeded
    /\ lorries' = Trimmed(lorries)
    /\ maxTime' = CeilHours(CalculatedMaxTime(lorries'))
    /\ schedules' = FinalSchedules(lorries')
    /\ pc' = "ganttDone"
    /\ UNCHANGED <<inputs, advancedSettings, ganttLoadingBayFreeAt, ganttI, ganttLog>>
    /\ UNCHANGED solverVars

Next ==
    \/ SolveDegenerate
    \/ SolveStart
    \/ SearchAccept
    \/ SearchReject
    \/ SearchExhausted
    \/ SearchSucceed
    \/ AchievableAdmit
    \/ AchievableStop
    \/ RequiredTrip
    \/ SolveInfeasible
    \/ GanttEmpty
    \/ GanttStart
    \/ GanttTrip
    \/ GanttFinish

Spec == Init /\ [][Next]_vars

\* the memo's code runs to completion: every enabled step is eventually taken
SpecFair == Spec /\ WF_vars(Next)

(***************************************************************************)
(* Properties                                                              *)
(***************************************************************************)
Solved == result # NoResult
Window == inputs.time
Capacity == advancedSettings.lorryCapacity
NonDegenerate ==
    /\ advancedSettings.lorryCapacity > 0
    /\ advancedSettings.avgSpeed > 0
    /\ inputs.time > 0
    /\ inputs.loadTime > 0

\* C1: for every non-degenerate input, when the solver returns a finite
\* lorriesNeeded = n, the greedy simulation with n lorries dispatches every
\* trip with load end <= window + epsilon, and with every m in 1..n-1 some
\* trip's load end exceeds window + epsilon: n is the minimum feasible fleet.
C1_MinimumFleet ==
    (pc = "done" /\ NonDegenerate /\ isFinite(result.lorriesNeeded)) =>
        /\ result.lorriesNeeded >= 1
        /\ Possible(result.lorriesNeeded)
        /\ \A m \in 1..(result.lorriesNeeded - 1) : ~Possible(m)

C1_Witness ==
    /\ pc = "done"
    /\ NonDegenerate
    /\ isFinite(result.lorriesNeeded)
    /\ result.lorriesNeeded >= 3

\* C2: feasibility is monotone in the fleet size: if the greedy simulation
\* with n lorries loads every trip by window + epsilon, so does the one with
\* n + 1 lorries (for every n up to the search ceiling).
C2_Monotone ==
    (pc = "done" /\ NonDegenerate) =>
        \A n \in 1..maxLorriesToTest : Possible(n) => Possible(n + 1)

C2_Witness ==
    /\ pc = "done"
    /\ NonDegenerate
    /\ ~Possible(1)
    /\ ~Possible(2)
    /\ Possible(3)
    /\ Possible(4)

\* every loading phase of the schedule under construction, as <<lorry, trip>>
LoadingPhases(ls) ==
    UNION {{<<k, t>> : t \in 1..Len(ls[k].trips)} : k \in 1..Len(ls)}

\* C3: the loading bay is exclusive: in every dispatch run of the solver each
\* trip's load start is >= the load end of the trip dispatched before it, and
\* in the schedule builder no two loading phases of any lorries overlap.
C3_BayExclusive ==
    /\ \A k \in 1..(Len(loadLog) - 1) : loadLog[k + 1][1] >= loadLog[k][2]
    /\ \A a \in LoadingPhases(lorries) : \A b \in LoadingPhases(lorries) :
          a # b =>
            LET pa == lorries[a[1]].trips[a[2]][1]
                pb == lorries[b[1]].trips[b[2]][1]
            IN pa.type = "loading" /\ pb.type = "loading"
               /\ (pa.end <= pb.start \/ pb.end <= pa.start)

C3_Witness ==
    /\ pc = "ganttDone"
    /\ Len(lorries) >= 2
    /\ Len(loadLog) >= 3
    /\ Cardinality(LoadingPhases(lorries)) >= 3
    /\ \E k \in 1..(Len(loadLog) - 1) : loadLog[k + 1][1] = loadLog[k][2]

\* C4: for every non-degenerate input the result's totalTripsNeeded is
\* ceil(material / lorryCapacity), i.e. the least integer t with
\* t * lorryCapacity >= material, in the feasible and in the infeasible
\* branch, and it is >= 1 whenever material > 0.
C4_TripCount ==
    (Solved /\ NonDegenerate) =>
        /\ result.totalTripsNeeded * Capacity >= inputs.material
        /\ (result.totalTripsNeeded - 1) * Capacity < inputs.material
        /\ inputs.material > 0 => result.totalTripsNeeded >= 1

C4_Witness ==
    /\ pc = "done"
    /\ NonDegenerate
    /\ ~isFinite(result.lorriesNeeded)
    /\ inputs.material % Capacity # 0
    /\ result.totalTripsNeeded = 3

\* C5: if lorryCapacity <= 0, avgSpeed <= 0, time <= 0 or loadTime <= 0, the
\* solver returns the all-zero result whatever the other inputs are, and it
\* runs no simulation.
C5_DegenerateZero ==
    (Solved /\ ~NonDegenerate) =>
        /\ result.lorriesNeeded = 0
        /\ result.totalTripsNeeded = 0
        /\ result.timePerTrip = 0
        /\ result.tripsPerLorry.num = 0
        /\ result.totalValue = 0
        /\ result.totalCost = 0
        /\ result.achievableMaterial = 0
        /\ result.achievableValue = 0
        /\ DOMAIN result = {"lorriesNeeded", "totalTripsNeeded", "timePerTrip",
                            "tripsPerLorry", "totalValue", "totalCost",
                            "achievableMaterial", "achievableValue"}
        /\ numLorries = 0
        /\ lorriesNextAvailableTime = <<>>
        /\ loadLog = <<>>
        /\ decided = {}

C5_Witness ==
    /\ pc = "done"
    /\ inputs.loadTime <= 0
    /\ advancedSettings.lorryCapacity > 0
    /\ advancedSettings.avgSpeed > 0
    /\ inputs.time > 0
    /\ inputs.material > 0
    /\ inputs.pricePerTonne > 0
    /\ result.totalValue = 0

\* C6: the deadline guard is inclusive at the tolerance: a trip whose load end
\* is exactly window + 1e-4 h is accepted, and a trip whose load end is
\* window + 2e-4 h is rejected, in the search and in the achievable run.
C6_ToleranceBoundary ==
    \A d \in decided :
        /\ d.loadEndTime = Window + Epsilon => ~d.exceeded
        /\ d.loadEndTime = Window + 2 * Epsilon => d.exceeded

C6_Witness ==
    /\ pc = "achievable"
    /\ \E d \in decided : d.loadEndTime = Window + Epsilon /\ ~d.exceeded
    /\ \E k \in 1..Len(loadLog) : loadLog[k][2] = Window + Epsilon

\* a trip whose load end is window + 2e-4 h has been rejected
C6_RejectReached ==
    \E d \in decided : d.loadEndTime = Window + 2 * Epsilon /\ d.exceeded

RECURSIVE SumTrips(_)
SumTrips(s) == IF s = <<>> THEN 0 ELSE Len(s[Len(s)].trips) + SumTrips(Pop(s))

FeasibleSolve == NonDegenerate /\ Solved /\ isFinite(result.lorriesNeeded)

\* C7: for a feasible solve with fleet size n the schedule builder returns
\* exactly n entries, with ids 1..n in ascending order, whose trip counts sum
\* to totalTripsNeeded.
C7_ScheduleShape ==
    (pc = "ganttDone" /\ FeasibleSolve) =>
        /\ Len(schedules) = result.lorriesNeeded
        /\ \A k \in 1..Len(schedules) : schedules[k].id = k
        /\ SumTrips(schedules) = result.totalTripsNeeded

C7_Witness ==
    /\ pc = "ganttDone"
    /\ FeasibleSolve
    /\ Len(schedules) >= 2
    /\ result.totalTripsNeeded >= 3
    /\ \E k \in 1..Len(schedules) : Len(schedules[k].trips) >= 2

WellFormedTrip(trip) ==
    /\ Len(trip) \in {3, 4}
    /\ trip[1].type = "loading"
    /\ trip[2].type = "travel"
    /\ trip[3].type = "tipping"
    /\ Len(trip) = 4 => trip[4].type = "travel"
    /\ \A p \in 1..Len(trip) : trip[p].start <= trip[p].end
    /\ \A p \in 1..(Len(trip) - 1) : trip[p].end = trip[p + 1].start

\* C8: in every trip of every vehicle of the schedule, while it is built and
\* as it is returned, the phases are loading, travel, tipping and optionally
\* travel, each with start <= end, and consecutive phases are contiguous.
C8_PhasesContiguous ==
    /\ \A k \in 1..Len(lorries) : \A t \in 1..Len(lorries[k].trips) :
          WellFormedTrip(lorries[k].trips[t])
    /\ \A k \in 1..Len(schedules) : \A t \in 1..Len(schedules[k].trips) :
          WellFormedTrip(schedules[k].trips[t])

C8_Witness ==
    /\ pc = "ganttDone"
    /\ \E k \in 1..Len(schedules) :
          /\ Len(schedules[k].trips) >= 2
          /\ Len(schedules[k].trips[1]) = 4
          /\ Len(schedules[k].trips[Len(schedules[k].trips)]) = 3

\* C9: when no fleet size in 1..max(50, totalTripsNeeded) is feasible the
\* result has the infeasible sentinel as lorriesNeeded, tripsPerLorry 0,
\* totalCost 0, totalValue = material x pricePerTonne, and achievableMaterial
\* and achievableValue present with achievableValue = achievableMaterial x
\* pricePerTonne; when some fleet size is feasible, totalValue = material x
\* pricePerTonne, totalCost = lorriesNeeded x costPerLorry and no achievable
\* or requiredTime field is present.
C9_ResultFields ==
    (pc = "done" /\ NonDegenerate) =>
        IF \A n \in 1..maxLorriesToTest : ~Possible(n)
        THEN /\ ~isFinite(result.lorriesNeeded)
             /\ result.tripsPerLorry.num = 0
             /\ result.totalCost = 0
             /\ result.totalValue = inputs.material * inputs.pricePerTonne
             /\ {"achievableMaterial", "achievableValue"} \subseteq DOMAIN result
             /\ result.achievableValue = result.achievableMaterial * inputs.pricePerTonne
        ELSE /\ isFinite(result.lorriesNeeded)
             /\ result.totalValue = inputs.material * inputs.pricePerTonne
             /\ result.totalCost = result.lorriesNeeded * inputs.costPerLorry
             /\ DOMAIN result \cap {"achievableMaterial", "achievableValue",
                                    "requiredTime"} = {}

C9_Witness ==
    /\ pc = "done"
    /\ NonDegenerate
    /\ ~isFinite(result.lorriesNeeded)
    /\ result.achievableMaterial > 0
    /\ result.achievableValue > result.achievableMaterial
    /\ result.totalValue > result.achievableValue

\* C10: in an infeasible result achievableMaterial is k x lorryCapacity, where
\* k counts the consecutive trips of the greedy dispatch with the ceiling fleet
\* size max(50, totalTripsNeeded) whose load ends are at or before the
\* deadline (window + epsilon, the guard's deadline) ahead of the first trip
\* whose load end is after it; that (k+1)-th trip is not counted.
C10_AchievableMaterial ==
    (pc = "done" /\ NonDegenerate /\ ~isFinite(result.lorriesNeeded)) =>
        LET horizon == (Window + Epsilon) \div loadTimeHours + 1
            ends == LoadEnds(maxLorriesToTest, horizon)
            k == Cardinality({j \in 1..horizon :
                                \A h \in 1..j : ends[h] <= Window + Epsilon})
        IN /\ k < horizon
           /\ ends[k + 1] > Window + Epsilon
           /\ result.achievableMaterial = k * Capacity

C10_Witness ==
    /\ pc = "done"
    /\ NonDegenerate
    /\ ~isFinite(result.lorriesNeeded)
    /\ result.achievableMaterial = 2 * Capacity
    /\ achievableTrips = 2

InfeasibleSolve == pc = "done" /\ NonDegenerate /\ ~isFinite(result.lorriesNeeded)

\* the greedy dispatch of the remaining k trips meets the deadline of `window`
RECURSIVE MeetsWindowFrom(_, _, _, _)
MeetsWindowFrom(avail, bay, k, window) ==
    IF k <= 0 THEN TRUE
    ELSE LET s == Dispatch(avail, bay)
         IN /\ s.loadEndTime <= window + Epsilon
            /\ MeetsWindowFrom([avail EXCEPT ![s.earliestLorryIdx] = s.lorryReturnTime],
                               s.loadEndTime, k - 1, window)

MeetsWindow(n, window) == MeetsWindowFrom(NewFleet(n), 0, totalTripsNeeded, window)

\* windows shorter than r by more than the tolerance: the longest such window,
\* a few tolerances below r, and every whole number of minutes
ShorterWindows(r) ==
    {w \in {r - Epsilon - 1} \cup {r - d * Epsilon : d \in 2..4}
           \cup {m * (TicksPerHour \div MinutesPerHour) :
                    m \in 1..(r \div (TicksPerHour \div MinutesPerHour))} :
        w > 0 /\ w < r - Epsilon}

\* C11: in an infeasible result the reported requiredTime is the minimum
\* window that makes the full target feasible under the greedy policy at the
\* ceiling fleet size: with window = requiredTime the greedy dispatch of all
\* totalTripsNeeded trips passes the deadline check for every trip, and with
\* any window shorter than requiredTime by more than the tolerance it fails.
C11_RequiredTimeMinimal ==
    (InfeasibleSolve /\ "requiredTime" \in DOMAIN result) =>
        /\ MeetsWindow(maxLorriesToTest, result.requiredTime)
        /\ \A w \in ShorterWindows(result.requiredTime) :
              ~MeetsWindow(maxLorriesToTest, w)

C11_Witness ==
    /\ InfeasibleSolve
    /\ "requiredTime" \in DOMAIN result
    /\ result.totalTripsNeeded >= 3
    /\ Cardinality(ShorterWindows(result.requiredTime)) >= 10

\* the end of the last loading phase when trip j is given to lorry a[j] and
\* every trip starts as soon as its lorry and the bay are free (a later start
\* of one trip never makes a later trip start earlier)
RECURSIVE CompletionFrom(_, _, _, _)
CompletionFrom(a, j, avail, bay) ==
    IF j > Len(a) THEN bay
    ELSE LET start == Max(avail[a[j]], bay)
             end == start + loadTimeHours
         IN CompletionFrom(a, j + 1,
                           [avail EXCEPT ![a[j]] = end + travelTimeHours + tipTimeHours
                                                       + travelTimeHours],
                           end)

CompletionOf(a, n) == CompletionFrom(a, 1, [k \in 1..n |-> 0], 0)

\* every assignment of the trips to n lorries
Assignments(n) == [1..totalTripsNeeded -> 1..n]

\* the end of the last loading phase of the greedy dispatch with n lorries
GreedyCompletion(n) ==
    IF totalTripsNeeded <= 0 THEN 0
    ELSE LoadEnds(n, totalTripsNeeded)[totalTripsNeeded]

\* in the greedy dispatch of the remaining k trips, whenever a load starts
\* after the bay became free, no lorry was available before that start
RECURSIVE NeverIdlesFrom(_, _, _)
NeverIdlesFrom(avail, bay, k) ==
    IF k <= 0 THEN TRUE
    ELSE LET s == Dispatch(avail, bay)
         IN /\ s.loadStartTime >= bay
            /\ s.loadStartTime > bay =>
                  \A j \in 1..Len(avail) : avail[j] >= s.loadStartTime
            /\ NeverIdlesFrom([avail EXCEPT ![s.earliestLorryIdx] = s.lorryReturnTime],
                              s.loadEndTime, k - 1)

\* C12: for a fixed fleet of identical lorries the greedy rule is optimal for
\* the bay completion time: no assignment of the same trips to the lorries
\* that respects the bay's exclusivity and each lorry's round trip ends its
\* last loading phase earlier than the greedy dispatch; and the greedy
\* dispatch never leaves the bay idle while a lorry is available.  (Fleets
\* larger than the number of trips add only lorries no assignment need use.)
C12_GreedyOptimal ==
    (pc = "done" /\ NonDegenerate) =>
        \A n \in 1..totalTripsNeeded :
            /\ \A a \in Assignments(n) : GreedyCompletion(n) <= CompletionOf(a, n)
            /\ NeverIdlesFrom(NewFleet(n), 0, totalTripsNeeded)

C12_Witness ==
    /\ pc = "done"
    /\ NonDegenerate
    /\ totalTripsNeeded >= 3
    /\ \E a \in Assignments(2) : CompletionOf(a, 2) > GreedyCompletion(2)
    /\ \E a \in Assignments(3) : CompletionOf(a, 3) = GreedyCompletion(3)
    /\ GreedyCompletion(2) > totalTripsNeeded * loadTimeHours

\* every one of the remaining k trips of the greedy dispatch starts loading
\* no later than the deadline, within the tolerance
RECURSIVE StartsMeetFrom(_, _, _)
StartsMeetFrom(avail, bay, k) ==
    IF k <= 0 THEN TRUE
    ELSE LET s == Dispatch(avail, bay)
         IN /\ s.loadStartTime <= Window + Epsilon
            /\ StartsMeetFrom([avail EXCEPT ![s.earliestLorryIdx] = s.lorryReturnTime],
                              s.loadEndTime, k - 1)

StartsMeet(n) == StartsMeetFrom(NewFleet(n), 0, totalTripsNeeded)

\* C13 as stated: a returned finite fleet size n is the smallest fleet size
\* for which every trip's loading phase STARTS no later than the deadline,
\* within the tolerance.
C13_SmallestByLoadStart ==
    (pc = "done" /\ NonDegenerate /\ isFinite(result.lorriesNeeded)) =>
        /\ StartsMeet(result.lorriesNeeded)
        /\ \A m \in 1..(result.lorriesNeeded - 1) : ~StartsMeet(m)

\* C13, amended: a returned finite fleet size n is the smallest fleet size
\* for which every trip's loading phase ENDS no later than the deadline,
\* within the tolerance; the search's verdicts are about load ends.
C13_SmallestByLoadEnd ==
    /\ \A d \in decided : d.exceeded <=> d.loadEndTime > Window + Epsilon
    /\ (pc = "done" /\ NonDegenerate /\ isFinite(result.lorriesNeeded)) =>
          /\ MeetsWindow(result.lorriesNeeded, Window)
          /\ \A m \in 1..(result.lorriesNeeded - 1) : ~MeetsWindow(m, Window)

C13_Witness ==
    /\ pc = "done"
    /\ NonDegenerate
    /\ isFinite(result.lorriesNeeded)
    /\ result.lorriesNeeded >= 2
    /\ StartsMeet(result.lorriesNeeded - 1)
    /\ ~MeetsWindow(result.lorriesNeeded - 1, Window)

(***************************************************************************)
(* The application's own initial inputs (scenario A of the specification), *)
(* and the same with a half-hour window (scenario B)                       *)
(***************************************************************************)
ScenarioWindows == {3 * TicksPerHour, TicksPerHour \div 2}

ScenarioInit ==
    /\ inputs \in [material : {300}, distance : {20}, time : ScenarioWindows,
                   loadTime : {10}, pricePerTonne : {15}, costPerLorry : {600}]
    /\ advancedSettings = [lorryCapacity |-> 20, avgSpeed |-> 31, tipTime |-> 5]
    /\ pc = "start"
    /\ numLorries = 0
    /\ i = 0
    /\ lorriesNextAvailableTime = <<>>
    /\ loadingBayFreeAt = 0
    /\ lorriesNeeded = Infinity
    /\ achievableTrips = 0
    /\ requiredTime = 0
    /\ loadLog = <<>>
    /\ decided = {}
    /\ result = NoResult
    /\ lorries = <<>>
    /\ ganttLoadingBayFreeAt = 0
    /\ ganttI = 0
    /\ ganttLog = <<>>
    /\ schedules = <<>>
    /\ maxTime = 0

InitWithScenarios == Init \/ ScenarioInit

SpecWithScenarios == InitWithScenarios /\ [][Next]_vars

ScenarioB ==
    /\ inputs = [material |-> 300, distance |-> 20, time |-> TicksPerHour \div 2,
                 loadTime |-> 10, pricePerTonne |-> 15, costPerLorry |-> 600]
    /\ advancedSettings = [lorryCapacity |-> 20, avgSpeed |-> 31, tipTime |-> 5]

\* C14: in every infeasible result achievableMaterial is strictly less than
\* the requested material (fewer than totalTripsNeeded trips are admitted),
\* and it is positive whenever a single load fits in the window
\* (loadTime / 60 <= window + epsilon); scenario B (300 t, 20 mi, 0.5 h,
\* 10 min load, 20 t, 31 mph, 5 min tip) is infeasible with
\* 0 < achievableMaterial < 300.
C14_AchievableBelowTarget ==
    /\ InfeasibleSolve =>
          /\ result.achievableMaterial < inputs.material
          /\ result.achievableMaterial < result.totalTripsNeeded * Capacity
          /\ loadTimeHours <= Window + Epsilon => result.achievableMaterial > 0
    /\ (ScenarioB /\ Solved) =>
          /\ ~isFinite(result.lorriesNeeded)
          /\ 0 < result.achievableMaterial
          /\ result.achievableMaterial < 300

C14_Witness ==
    /\ ScenarioB
    /\ pc = "done"
    /\ result.totalTripsNeeded = 15
    /\ result.achievableMaterial = 60

PhaseTypes(trip) == [p \in 1..Len(trip) |-> trip[p].type]

RECURSIVE PhaseCount(_)
PhaseCount(trips) ==
    IF trips = <<>> THEN 0 ELSE Len(trips[Len(trips)]) + PhaseCount(Pop(trips))

\* C15: the trimming step leaves, for every vehicle with at least one trip,
\* a last trip of exactly the phases loading, travel, tipping and all earlier
\* trips with the four phases loading, travel, tipping, travel; it removes
\* exactly one phase per vehicle with trips (and none from the others), and
\* the returned schedules carry the trimmed trips.
C15_TrimsFinalReturn ==
    [][(pc = "gantt" /\ pc' = "ganttDone") =>
          /\ Len(lorries') = Len(lorries)
          /\ \A k \in 1..Len(lorries) :
                LET before == lorries[k].trips
                    after == lorries'[k].trips
                IN /\ Len(after) = Len(before)
                   /\ schedules'[k].trips = after
                   /\ PhaseCount(after) =
                         PhaseCount(before) - (IF Len(before) > 0 THEN 1 ELSE 0)
                   /\ \A t \in 1..Len(after) :
                         PhaseTypes(after[t]) =
                            IF t = Len(after)
                            THEN <<"loading", "travel", "tipping">>
                            ELSE <<"loading", "travel", "tipping", "travel">>]_vars

C15_Witness ==
    /\ pc = "ganttDone"
    /\ FeasibleSolve
    /\ \E k \in 1..Len(lorries) :
          /\ Len(lorries[k].trips) >= 2
          /\ PhaseCount(lorries[k].trips) = 4 * Len(lorries[k].trips) - 1
    /\ \E k \in 1..Len(lorries) : Len(lorries[k].trips) = 1

\* the loading phases of the schedule, as <<start, end>>
ScheduleLoads ==
    UNION {{<<schedules[k].trips[t][1].start, schedules[k].trips[t][1].end>> :
              t \in 1..Len(schedules[k].trips)} : k \in 1..Len(schedules)}

\* C16: for a feasible solve with fleet size n the builder's i-th dispatched
\* trip goes to the same vehicle index and has the same load start and load
\* end as the i-th trip of the solver's successful simulation with n lorries,
\* and so every loading phase of the built schedule ends no later than
\* window + epsilon.
C16_SameDispatch ==
    (pc \in {"gantt", "ganttDone"} /\ FeasibleSolve) =>
        /\ Len(loadLog) = result.totalTripsNeeded
        /\ Len(ganttLog) <= Len(loadLog)
        /\ \A k \in 1..Len(ganttLog) : ganttLog[k] = loadLog[k]
        /\ \A k \in 1..Len(lorries) : \A t \in 1..Len(lorries[k].trips) :
              lorries[k].trips[t][1].end <= Window + Epsilon
        /\ pc = "ganttDone" =>
              /\ Len(ganttLog) = Len(loadLog)
              /\ ScheduleLoads = {<<loadLog[k][1], loadLog[k][2]>> :
                                     k \in 1..Len(loadLog)}
              /\ \A k \in 1..Len(loadLog) :
                    \E t \in 1..Len(schedules[loadLog[k][3]].trips) :
                       /\ schedules[loadLog[k][3]].trips[t][1].start = loadLog[k][1]
                       /\ schedules[loadLog[k][3]].trips[t][1].end = loadLog[k][2]

C16_Witness ==
    /\ pc = "ganttDone"
    /\ FeasibleSolve
    /\ Len(ganttLog) >= 3
    /\ ganttLog = loadLog
    /\ \E k \in 2..Len(ganttLog) : ganttLog[k][1] > 0 /\ ganttLog[k][3] # ganttLog[k - 1][3]
    /\ \E k \in 2..Len(ganttLog) : ganttLog[k][3] = ganttLog[1][3]

LatestOf(ends) == CHOOSE m \in ends : \A e \in ends : e <= m

\* C17 as stated: the chart's maximum time is the ceiling of the latest
\* phase end across all vehicles, or the requested window itself if the
\* window is larger than every phase end.
C17_WindowItselfIfLarger ==
    pc = "ganttDone" =>
        LET ends == PhaseEnds(schedules)
        IN IF \A e \in ends : Window > e
           THEN maxTime = Window
           ELSE /\ maxTime % TicksPerHour = 0
                /\ maxTime >= LatestOf(ends)
                /\ maxTime - TicksPerHour < LatestOf(ends)

\* C17, amended: when a schedule is built, the chart's maximum time is the
\* least whole number of hours that is at least the requested window and at
\* least every phase end (the window is rounded up too); only when no
\* schedule is built (infeasible or zero fleet) is it the window itself.
C17_CeilingOfWindowOrLatestEnd ==
    pc = "ganttDone" =>
        IF ~isFinite(result.lorriesNeeded) \/ result.lorriesNeeded <= 0
        THEN schedules = <<>> /\ maxTime = Window
        ELSE LET m == LatestOf({Window} \cup PhaseEnds(schedules))
             IN /\ schedules # <<>>
                /\ maxTime % TicksPerHour = 0
                /\ maxTime >= m
                /\ maxTime - TicksPerHour < m

C17_Witness ==
    /\ pc = "ganttDone"
    /\ FeasibleSolve
    /\ PhaseEnds(schedules) # {}
    /\ \A e \in PhaseEnds(schedules) : Window > e
    /\ Window % TicksPerHour # 0
    /\ maxTime > Window

C17_LatestEndWitness ==
    /\ pc = "ganttDone"
    /\ FeasibleSolve
    /\ \E e \in PhaseEnds(schedules) : e > Window /\ e % TicksPerHour # 0 /\ maxTime > e

\* C18: the solver is total: for every non-degenerate input the search, the
\* achievable-throughput loop and the required-time loop terminate with a
\* result (and the degenerate ones return at once); each trip admitted by
\* the achievable-throughput loop ends loading at least loadTime/60 after
\* the previous one, so at most floor((window + epsilon) / (loadTime/60))
\* trips are admitted; the search tests no fleet above max(50, trips).
C18_SolverTotal ==
    /\ <>Solved
    /\ [](NonDegenerate =>
            /\ numLorries <= maxLorriesToTest
            /\ i <= Max(totalTripsNeeded, achievableTrips)
            /\ achievableTrips <= (Window + Epsilon) \div loadTimeHours
            /\ pc = "achievable" =>
                  /\ Len(loadLog) = achievableTrips
                  /\ \A k \in 1..Len(loadLog) : loadLog[k][2] >= k * loadTimeHours)

C18_Witness ==
    /\ InfeasibleSolve
    /\ achievableTrips >= 2
    /\ achievableTrips = (Window + Epsilon) \div loadTimeHours
    /\ "requiredTime" \in DOMAIN result

\* the entries of log (load start, load end, lorry index) given to lorry k
TripsOf(log, k) == {j \in 1..Len(log) : log[j][3] = k}

\* C19: no vehicle is ever in two trips at once: in every dispatch run (the
\* search, the achievable-throughput loop, the required-time loop and the
\* builder) a vehicle's next loading phase starts no earlier than its
\* previous load end + travel + tip + travel, and in the built schedule the
\* trips of each vehicle are ordered in time and do not overlap.
C19_OneTripAtATime ==
    /\ \A a \in 1..Len(loadLog) : \A b \in (a + 1)..Len(loadLog) :
          loadLog[a][3] = loadLog[b][3] =>
             loadLog[b][1] >= loadLog[a][2] + travelTimeHours + tipTimeHours
                                 + travelTimeHours
    /\ \A a \in 1..Len(ganttLog) : \A b \in (a + 1)..Len(ganttLog) :
          ganttLog[a][3] = ganttLog[b][3] =>
             ganttLog[b][1] >= ganttLog[a][2] + travelTimeHours + tipTimeHours
                                  + travelTimeHours
    /\ \A k \in 1..Len(lorries) : \A t \in 1..(Len(lorries[k].trips) - 1) :
          LET trip == lorries[k].trips[t]
              next == lorries[k].trips[t + 1]
          IN /\ Len(trip) = 4
             /\ trip[4].end = trip[1].end + travelTimeHours + tipTimeHours
                                 + travelTimeHours
             /\ next[1].start >= trip[4].end
    /\ \A k \in 1..Len(schedules) : \A t \in 1..(Len(schedules[k].trips) - 1) :
          LET trip == schedules[k].trips[t]
              next == schedules[k].trips[t + 1]
          IN \A p \in 1..Len(trip) : \A q \in 1..Len(next) :
                trip[p].end <= next[q].start

C19_Witness ==
    /\ pc = "ganttDone"
    /\ FeasibleSolve
    /\ travelTimeHours + tipTimeHours > 0
    /\ \E k \in 1..Len(schedules) :
          /\ Len(schedules[k].trips) >= 2
          /\ \E a, b \in TripsOf(loadLog, k) :
                a < b /\ loadLog[b][1] > loadLog[a][2]

\* C20: in every infeasible result requiredTime is present and strictly
\* greater than the requested window: the load ends of the required-time run
\* never decrease and its last one exceeds window + epsilon, so requiredTime
\* is never omitted; scenario B has requiredTime > 0.5 h.
C20_RequiredTimePresent ==
    /\ InfeasibleSolve =>
          /\ "requiredTime" \in DOMAIN result
          /\ result.requiredTime > Window + Epsilon
          /\ result.requiredTime = requiredTime
          /\ Len(loadLog) = result.totalTripsNeeded
          /\ loadLog[Len(loadLog)][2] = result.requiredTime
          /\ \A k \in 2..Len(loadLog) : loadLog[k - 1][2] <= loadLog[k][2]
    /\ (ScenarioB /\ Solved) =>
          /\ "requiredTime" \in DOMAIN result
          /\ result.requiredTime > TicksPerHour \div 2

C20_Witness ==
    /\ ScenarioB
    /\ pc = "done"
    /\ ~isFinite(result.lorriesNeeded)
    /\ "requiredTime" \in DOMAIN result
    /\ result.requiredTime = 15 * loadTimeHours

C20_DrawnWitness ==
    /\ InfeasibleSolve
    /\ ~ScenarioB
    /\ result.totalTripsNeeded >= 2
    /\ result.requiredTime > loadTimeHours

====
